---- MODULE Spec2Model ----
(***************************************************************************)
(* Model of web_clipper.py: the clip pipeline WebClipperHandler.process_file *)
(* (publish to GitHub Pages, deploy polling, markdown extraction, AI        *)
(* summary, Notion record, Telegram notification) and parse_filename.       *)
(*                                                                         *)
(* Strings are sequences of one-character strings, so that split, strip    *)
(* and replace are computed as Python computes them.  Multi-character      *)
(* literals the code matches on ("Title:", the summary and tag labels) are *)
(* single tokens of such a sequence.                                       *)
(***************************************************************************)
EXTENDS Integers, Sequences, FiniteSets, TLC

\* ---------------------------------------------------------------- bounds

\* largest configured github_pages_max_retries explored (0..MaxDeployRetries)
MaxDeployRetries == 2

\* largest configured openai_max_retries explored (0..MaxAiRetries)
MaxAiRetries == 3

\* longest client URL encoded into a file name and decoded again
MaxUrlLen == 3

\* longest markdown line, and most lines, a title is extracted from
MaxLineLen == 3
MaxLines == 2

\* longest stored file name explored by ParseSpec
MaxNameLen == 4

\* ------------------------------------------------------ program constants

\* upload_to_github: max_retries = 5, retry_delay = 3
GithubMaxRetries == 5
GithubRetryDelay == 3

\* url2md(self, url, max_retries=30)
Url2mdMaxRetries == 30

\* save_to_notion: max_retries = 3, retry_delay = 2
NotionMaxRetries == 3
NotionRetryDelay == 2

\* url2md: time.sleep(10) of the inner handler
Url2mdSleep == 10

\* get_page_content_by_bs(self, url, max_retries=60), time.sleep(5)
BsMaxRetries == 60
BsSleep == 5

\* An optional value is the empty tuple (Python's None) or a one-element
\* tuple holding the value.
None == <<>>
Some(v) == <<v>>

\* ------------------------------------------------------- string helpers

\* "x in s" for a character x
Contains(s, x) == \E i \in 1..Len(s) : s[i] = x

\* index of the first / last occurrence of x in s (0 when absent)
FirstIndex(s, x) ==
    IF Contains(s, x) THEN CHOOSE i \in 1..Len(s) : s[i] = x /\ \A j \in 1..(i-1) : s[j] # x
    ELSE 0

LastIndex(s, x) ==
    IF Contains(s, x) THEN CHOOSE i \in 1..Len(s) : s[i] = x /\ \A j \in (i+1)..Len(s) : s[j] # x
    ELSE 0

\* str.replace(x, y) for single characters x, y
ReplaceChar(s, x, y) == [i \in 1..Len(s) |-> IF s[i] = x THEN y ELSE s[i]]

\* str.replace(tok, '') for a token
RemoveToken(s, tok) == SelectSeq(s, LAMBDA c : c # tok)

\* str.strip(): drop leading and trailing blanks
RECURSIVE LStrip(_)
LStrip(s) == IF s # <<>> /\ Head(s) = " " THEN LStrip(Tail(s)) ELSE s

RECURSIVE RStrip(_)
RStrip(s) == IF s # <<>> /\ s[Len(s)] = " " THEN RStrip(SubSeq(s, 1, Len(s) - 1)) ELSE s

Strip(s) == RStrip(LStrip(s))

\* str.split(sep): always at least one piece, '' splits to ['']
RECURSIVE Split(_, _)
Split(s, sep) ==
    IF ~Contains(s, sep) THEN <<s>>
    ELSE LET i == FirstIndex(s, sep)
         IN <<SubSeq(s, 1, i - 1)>> \o Split(SubSeq(s, i + 1, Len(s)), sep)

\* ------------------------------------------------------- parse_filename

\* (no extension removed)
KeepExtension(filename) == filename

\* filename.rsplit('.', 1)[0]
RSplitDotHead(filename) ==
    IF Contains(filename, ".") THEN SubSeq(filename, 1, LastIndex(filename, ".") - 1)
    ELSE filename

\* name.split('_', 1)[1] when '_' in name
StripPrefix(name) ==
    IF Contains(name, "_") THEN SubSeq(name, FirstIndex(name, "_") + 1, Len(name))
    ELSE name

\* parse_filename(filename)['original_url']
parse_filename(filename) ==
    ReplaceChar(StripPrefix(RSplitDotHead(filename)), "$", "/")

\* ------------------------------------------------ get_page_content_by_md

\* the literal token "Title:" of a markdown line
TitleToken == "Title:"

\* the sentinel title returned when no line starts with "Title:"
UnknownTitle == <<"?">>

StartsWith(line, tok) == line # <<>> /\ Head(line) = tok

\* get_page_content_by_md(md_content), md_content a sequence of lines
RECURSIVE get_page_content_by_md(_)
get_page_content_by_md(lines) ==
    IF lines = <<>> THEN UnknownTitle
    ELSE IF StartsWith(Head(lines), TitleToken)
         THEN Strip(RemoveToken(Head(lines), TitleToken))
         ELSE get_page_content_by_md(Tail(lines))

\* ------------------------------------------- get_page_content_by_bs

\* the elements the title is looked for in; a page says for each of them
\* whether it is absent, present without text, or present with a text (the
\* text of an element is written as the element's name)
HeadingTags == <<"h2", "h3", "h4", "h5", "h6">>
TitleTags == {"title", "h1"} \cup {HeadingTags[i] : i \in 1..Len(HeadingTags)}
NoPage == [t \in TitleTags |-> "absent"]

\* soup.title, soup.h1, soup.find(tag)
Found(p, t) == p[t] # "absent"

\* soup.title.string: None for an element without text
TitleString(p) == IF p["title"] = "text" THEN Some(<<"title">>) ELSE None

\* element.get_text(strip=True): '' for an element without text
GetText(p, t) == IF p[t] = "text" THEN <<t>> ELSE <<>>

\* "not title" for an optional string: None and '' are both false
Falsy(o) == o = None \/ o[1] = <<>>

\* the first tag of ['h2', ..., 'h6'] that soup.find finds (0 when none)
FirstHeading(p) ==
    IF \E i \in 1..Len(HeadingTags) : Found(p, HeadingTags[i])
    THEN CHOOSE i \in 1..Len(HeadingTags) :
             /\ Found(p, HeadingTags[i])
             /\ \A j \in 1..(i - 1) : ~Found(p, HeadingTags[j])
    ELSE 0

\* lines 511-520: the title as an optional string (None when nothing set it)
BsTitle(p) ==
    LET t1 == IF Found(p, "title") THEN TitleString(p) ELSE None
        t2 == IF Falsy(t1) /\ Found(p, "h1") THEN Some(GetText(p, "h1")) ELSE t1
        h  == FirstHeading(p)
    IN IF Falsy(t2) /\ h > 0 THEN Some(GetText(p, HeadingTags[h])) ELSE t2

\* "{title}" in an f-string: str(None) is the text None
FormatTitle(o) == IF o = None THEN <<"N", "o", "n", "e">> ELSE o[1]

\* html2text of the page
BsContent == <<" ", "c">>

\* f"Title: {title} \n\n {content}", as a sequence of lines
BsText(p) == << <<TitleToken, " ">> \o FormatTitle(BsTitle(p)) \o <<" ">>, <<>>, BsContent >>

\* os.path.basename(url)
Basename(url) == SubSeq(url, LastIndex(url, "/") + 1, Len(url))

\* ------------------------------------------- generate_summary_tags parsing

\* the label tokens the prompt asks for (summary label, tag label) and the
\* full-width comma that separates tags
SummaryLabel == "summary:"
TagsLabel == "tags:"
TagSeparator == ","

\* tags = [tag.strip() for tag in line.replace(label, '').split(sep)]
ParseTags(line) ==
    LET parts == Split(RemoveToken(line, TagsLabel), TagSeparator)
    IN [i \in 1..Len(parts) |-> Strip(parts[i])]

\* the for-loop over result.split('\n'), starting from summary = "", tags = []
RECURSIVE ParseLines(_, _, _)
ParseLines(lines, summary, tags) ==
    IF lines = <<>> THEN [summary |-> summary, tags |-> tags]
    ELSE LET line == Head(lines)
         IN IF StartsWith(line, SummaryLabel)
            THEN ParseLines(Tail(lines), Strip(RemoveToken(line, SummaryLabel)), tags)
            ELSE IF StartsWith(line, TagsLabel)
                 THEN ParseLines(Tail(lines), summary, ParseTags(line))
                 ELSE ParseLines(Tail(lines), summary, tags)

ParseResponse(result) == ParseLines(result, <<>>, <<>>)

\* "if not summary or not tags: raise ValueError"
FormatFailure(parsed) == parsed.summary = <<>> \/ parsed.tags = <<>>

\* config.get('default_summary', ...), config.get('default_tags', [...])
DefaultSummary == <<"D">>
Uncategorized == <<"U">>
DefaultTags == <<Uncategorized>>

\* (defaults that lose the tags)
AiDefaultsWithoutTags == [summary |-> DefaultSummary, tags |-> <<>>]

\* what generate_summary_tags returns once the retries are exhausted and
\* skip_ai_on_error is set
AiDefaults == [summary |-> DefaultSummary, tags |-> DefaultTags]

\* (a summarizer that raises whatever the flag says)
AiAlwaysRaises(cfg) == TRUE

\* after the last attempt failed: "if skip_ai_on_error: return defaults; raise"
AiExhaustionRaises(cfg) == ~cfg.skip_ai_on_error

\* "if self.config.get('notify_on_ai_error', True): asyncio.create_task(...)"
AiExhaustionTasks(cfg, pending) ==
    IF cfg.notify_on_ai_error THEN Append(pending, "ai_error") ELSE pending

\* ------------------------------------------------- save_to_notion payload

\* "tags = data.get('tags', []); if not tags: tags = [uncategorized]"
NotionTags(tags) == IF tags = <<>> THEN <<Uncategorized>> ELSE tags

\* [{"name": tag} for tag in tags if tag.strip()]
MultiSelect(tags) == SelectSeq(NotionTags(tags), LAMBDA t : Strip(t) # <<>>)

\* (a payload that writes the original URL as it was given)
NotionPropertiesUrlAsGiven(data) ==
    [Title       |-> data.title,
     OriginalURL |-> Some(data.original_url),
     SnapshotURL |-> data.snapshot_url,
     Summary     |-> data.summary,
     Tags        |-> MultiSelect(data.tags)]

\* the properties passed to notion_client.pages.create
NotionProperties(data) ==
    [Title       |-> data.title,
     OriginalURL |-> IF data.original_url # <<>> THEN Some(data.original_url) ELSE None,
     SnapshotURL |-> data.snapshot_url,
     Summary     |-> data.summary,
     Tags        |-> MultiSelect(data.tags)]

\* response['url'] of a created page, and the placeholder returned on degradation
NotionPageUrl == "https://www.notion.so/page"
NotionPlaceholderUrl == "https://www.notion.so/error-saving"

\* (a recorder that raises whatever the flag says)
NotionAlwaysRaises(cfg) == TRUE

\* after the last attempt failed: "if skip_notion_on_error: return placeholder; raise"
NotionExhaustionRaises(cfg) == ~cfg.skip_notion_on_error

\* ------------------------------------------------------------- inputs

\* stored names "{random_prefix}_{url with / as $}.html"
NameExample ==
    <<"a","b","c","1","2","3","_","h","t","t","p","s",":","$","$",
      "e","x","a","m","p","l","e",".","c","o","m","$","p","a","g","e">>

HtmlExt == <<".","h","t","m","l">>

NameExampleHtml == NameExample \o HtmlExt

NameShortHtml == <<"f","_","u","$","v",".","h","t","m","l">>

\* the url form field of upload_file: absent ('') or given
DeclaredUrl == <<"h","t","t","p",":","/","/","o">>

FileNames == {NameExampleHtml, NameShortHtml}
DeclaredUrls == {<<>>, DeclaredUrl}

\* f"https://{github_pages_domain}/{repo}/clips/{filename}"
PagesPrefix == <<"h","t","t","p","s",":","/","/","d","/","r","/","c","l","i","p","s","/">>
PagesUrl(name) == PagesPrefix \o name

\* markdown bodies the renderer may return (sequences of lines)
MdBodies == { << <<TitleToken, " ", "t">>, <<"b">> >>, << <<"b">> >> }

\* texts the AI provider may return (sequences of lines)
AiResponses ==
    { << <<SummaryLabel, "s">>, <<TagsLabel, "a", TagSeparator, "b">> >>,
      << <<SummaryLabel, "s">>, <<TagsLabel>> >>,
      << <<SummaryLabel, "s">>, <<TagsLabel, " ", TagSeparator, " ">> >>,
      << <<SummaryLabel, "s">>, <<TagsLabel, "a", TagSeparator, " ">> >>,
      << <<SummaryLabel, "s">> >>,
      << <<TagsLabel, "a">> >>,
      << <<SummaryLabel, " ">>, <<TagsLabel, "a">> >>,
      << <<"x">> >> }

Configs ==
    [skip_ai_on_error         : BOOLEAN,
     skip_notion_on_error     : BOOLEAN,
     notify_on_ai_error       : BOOLEAN,
     github_pages_max_retries : 0..MaxDeployRetries,
     openai_max_retries       : 0..MaxAiRetries]

\* -------------------------------------------------------------- state

VARIABLES
    config,          \* self.config (the flags and ceilings the pipeline reads)
    pc,              \* position of process_file
    filename,        \* stored file name (basename of file_path)
    original_url,    \* process_file's original_url
    github_url,      \* snapshot URL returned by upload_to_github
    attempt,         \* loop variable of the running retry loop
    retry_delay,     \* upload_to_github's retry_delay
    deploy_attempt,  \* upload_to_github's deploy_attempt
    deploy_gets,     \* GET requests made by the deploy polling loop
    deploy_result,   \* "" | "deployed" (line 261) | "timeout" (line 287)
    published,       \* successful repo.create_file calls
    md_content,      \* url2md's return value (optional)
    url2md_result,   \* "" | "200" (line 309) | "exhausted" (loop ended)
    fallback_calls,  \* calls of get_page_content_by_bs
    title,
    ai_calls,        \* provider calls made by generate_summary_tags
    ai_result,       \* "" | "parsed" (line 413) | "exhausted" (lines 421-436)
    summary,
    tags,
    notion_calls,    \* notion_client.pages.create calls
    notion_payload,  \* properties of the last pages.create call (optional)
    notion_url,
    tasks,           \* notifications scheduled with asyncio.create_task
    sent,            \* telegram_bot.send_message attempts, in order
    caught,          \* the exception process_file's handler caught
    result,          \* process_file's return value (optional)
    notion_records,  \* pages the Notion database holds for this clip
    stages,          \* steps process_file has completed (its log lines)
    retried,         \* some attempt of some step has failed
    file_path,       \* the temporary upload file: written, cleaned, unlinked
    response,        \* upload_file's outcome: none yet, 200, 500
    last_wait,       \* seconds slept since the previous attempt of the running loop
    errors,          \* exceptions caught by the running retry loop, in order
    cause,           \* the exception a retry loop gave up with (e of its handler)
    page,            \* the HTML page the published URL served (its title and headings)
    bs_result,       \* get_page_content_by_bs's return value (optional)
    client_url,      \* the URL the client named the uploaded file after
    error            \* the exception in flight / raised to the caller

vars == <<client_url, bs_result, page, cause, errors, last_wait, response, file_path, retried, stages,
         notion_records, config, pc, filename, original_url, github_url, attempt, retry_delay,
          deploy_attempt, deploy_gets, deploy_result, published, md_content,
          url2md_result, fallback_calls, title, ai_calls, ai_result, summary, tags, notion_calls,
          notion_payload, notion_url, tasks, sent, caught, result, error>>

NoError == ""

\* state of a handler before process_file is called
InitLocals ==
    /\ client_url = <<>>
    /\ bs_result = None
    /\ page = NoPage
    /\ cause = ""
    /\ errors = <<>>
    /\ last_wait = 0
    /\ response = ""
    /\ file_path = "written"
    /\ retried = FALSE
    /\ stages = <<>>
    /\ notion_records = 0
    /\ github_url = <<>>
    /\ attempt = 0
    /\ retry_delay = GithubRetryDelay
    /\ deploy_attempt = 0
    /\ deploy_gets = 0
    /\ deploy_result = ""
    /\ published = 0
    /\ md_content = None
    /\ url2md_result = ""
    /\ fallback_calls = 0
    /\ title = <<>>
    /\ ai_calls = 0
    /\ ai_result = ""
    /\ summary = <<>>
    /\ tags = <<>>
    /\ notion_calls = 0
    /\ notion_payload = None
    /\ notion_url = ""
    /\ tasks = <<>>
    /\ sent = <<>>
    /\ caught = NoError
    /\ result = None
    /\ error = NoError

Init ==
    /\ config \in Configs
    /\ pc = "upload_to_github"
    /\ filename \in FileNames
    /\ original_url \in DeclaredUrls
    /\ InitLocals

\* ------------------------------------------------- upload_to_github

\* (a publish loop that retries whatever the attempt)
GithubRetriesForever(a) == TRUE

\* "if attempt < max_retries - 1: sleep, double the delay, continue; else raise"
GithubRetries(a) == a < GithubMaxRetries - 1

\* (a deploy loop that polls once more than the ceiling)
PollContinuesOneMore(n, ceiling) == n + 1 < ceiling + 1

\* the deploy loop "for deploy_attempt in range(max_deploy_retries)" goes on
PollContinues(n, ceiling) == n + 1 < ceiling

\* upload_to_github's locals go out of scope when it has returned
UploadLocalsCleared ==
    /\ retry_delay' = GithubRetryDelay
    /\ deploy_attempt' = 0
    /\ deploy_gets' = 0
    /\ deploy_result' = ""

\* what get_repo / create_file can do: create the file, or raise
PublishReplies == {"created", "GithubException", "ConnectionError"}

\* (a loop that gives up with the first exception it caught)
FirstError(es) == es[1]

\* the exception of the iteration that gives up: "raise ... from e", "raise"
Propagated(es) == es[Len(es)]

\* one iteration of "for attempt in range(max_retries)": repo.create_file
PublishAttempt ==
    /\ pc = "upload_to_github"
    /\ \E reply \in PublishReplies :
         IF reply = "created"
         THEN /\ published' = published + 1
              /\ last_wait' = 0
              /\ errors' = <<>>
              /\ UNCHANGED cause
              /\ github_url' = PagesUrl(filename)
              /\ IF config.github_pages_max_retries > 0
                 THEN /\ pc' = "deploy_poll"
                      /\ UNCHANGED <<attempt, deploy_result>>
                 ELSE /\ pc' = "url2md"
                      /\ attempt' = 0
                      /\ deploy_result' = "timeout"
              /\ UNCHANGED <<retry_delay, error>>
         ELSE /\ errors' = Append(errors, reply)
              /\ IF GithubRetries(attempt)
                 THEN /\ attempt' = attempt + 1
                      /\ last_wait' = retry_delay
                      /\ retry_delay' = retry_delay * 2
                      /\ UNCHANGED <<pc, error, cause>>
                 ELSE /\ pc' = "except"
                      /\ error' = "GitHubUploadError"
                      /\ cause' = Propagated(errors')
                      /\ UNCHANGED <<attempt, retry_delay, last_wait>>
              /\ UNCHANGED <<published, github_url, deploy_result>>
    /\ stages' = IF pc' = "url2md" THEN Append(stages, "Published") ELSE stages
    /\ retried' = (retried \/ published' = published)
    /\ UNCHANGED <<client_url, bs_result, page, response, file_path, notion_records, config, filename, original_url, deploy_attempt, deploy_gets,
                   md_content, url2md_result, fallback_calls, title, ai_calls, ai_result, summary,
                   tags, notion_calls, notion_payload, notion_url, tasks, sent,
                   caught, result>>

\* one iteration of the deploy loop: session.get(github_url)
DeployPoll ==
    /\ pc = "deploy_poll"
    /\ \E r \in {"200", "non200", "RequestException"} :
         /\ deploy_gets' = deploy_gets + 1
         /\ IF r = "200"
            THEN /\ deploy_result' = "deployed"
                 /\ pc' = "url2md"
                 /\ attempt' = 0
                 /\ UNCHANGED deploy_attempt
            ELSE IF PollContinues(deploy_attempt, config.github_pages_max_retries)
                 THEN /\ deploy_attempt' = deploy_attempt + 1
                      /\ UNCHANGED <<deploy_result, pc, attempt>>
                 ELSE /\ deploy_result' = "timeout"
                      /\ pc' = "url2md"
                      /\ attempt' = 0
                      /\ UNCHANGED deploy_attempt
    /\ stages' = IF pc' = "url2md" THEN Append(stages, "Published") ELSE stages
    /\ retried' = (retried \/ deploy_result' # "deployed")
    /\ UNCHANGED <<client_url, bs_result, page, cause, errors, last_wait, response, file_path, notion_records, config, filename, original_url, github_url, retry_delay,
                   published, md_content, url2md_result, fallback_calls, title, ai_calls, ai_result,
                   summary, tags, notion_calls, notion_payload, notion_url, tasks,
                   sent, caught, result, error>>

\* ------------------------------------------------------------ url2md

RendererReplies ==
    {[status |-> "200", text |-> b] : b \in MdBodies}
        \cup {[status |-> "non200", text |-> <<>>], [status |-> "exception", text |-> <<>>]}

\* the sleep of one iteration: "except Exception: time.sleep(10)", and no
\* sleep on the path of a reply that is not 200
Url2mdWait(status) == IF status = "exception" THEN Url2mdSleep ELSE 0

\* "for attempt in range(max_retries)" goes on
RendererContinues(a) == a + 1 < Url2mdMaxRetries

\* one iteration of url2md's loop: requests.get(f"https://r.jina.ai/{url}").
\* A non-200 reply goes to the next iteration, an exception is caught by the
\* inner handler (sleep 10); when the loop ends the function ends without a
\* return statement, so the caller gets None and get_page_content_by_bs,
\* called only from the outer handler, is not reached.
Url2mdRequest ==
    /\ pc = "url2md"
    /\ \E r \in RendererReplies :
         /\ last_wait' = Url2mdWait(r.status)
         /\ IF r.status = "200"
            THEN /\ md_content' = Some(r.text)
                 /\ url2md_result' = "200"
                 /\ pc' = "get_page_content_by_md"
                 /\ attempt' = 0
            ELSE IF RendererContinues(attempt)
                 THEN /\ attempt' = attempt + 1
                      /\ UNCHANGED <<md_content, url2md_result, pc>>
                 ELSE /\ md_content' = None
                      /\ url2md_result' = "exhausted"
                      /\ pc' = "get_page_content_by_md"
                      /\ attempt' = 0
    /\ UploadLocalsCleared
    /\ retried' = (retried \/ url2md_result' # "200")
    /\ UNCHANGED <<client_url, bs_result, page, cause, errors, response, file_path, stages, notion_records, config, filename, original_url, github_url, published,
                   fallback_calls, title, ai_calls, ai_result, summary, tags,
                   notion_calls, notion_payload, notion_url, tasks, sent, caught,
                   result, error>>

\* (the title step handing over to the Notion write, the summary skipped)
ExtractTitleThenRecord ==
    /\ pc = "get_page_content_by_md"
    /\ IF md_content = None
       THEN /\ pc' = "except"
            /\ error' = "AttributeError"
            /\ UNCHANGED <<title, original_url>>
       ELSE /\ title' = get_page_content_by_md(md_content[1])
            /\ original_url' = IF original_url = <<>> THEN parse_filename(filename)
                               ELSE original_url
            /\ pc' = "save_to_notion"
            /\ UNCHANGED error
    /\ stages' = IF pc' = "save_to_notion" THEN Append(stages, "Extracted") ELSE stages
    /\ UNCHANGED <<client_url, bs_result, page, cause, errors, last_wait, response, file_path, retried, notion_records, config, filename, github_url, attempt, retry_delay,
                   deploy_attempt, deploy_gets, deploy_result, published,
                   md_content, url2md_result, fallback_calls, ai_calls, ai_result, summary, tags,
                   notion_calls, notion_payload, notion_url, tasks, sent, caught,
                   result>>

\* process_file lines 155-161: the title, then the original URL from the
\* file name when none was declared.  None.splitlines() raises AttributeError.
ExtractTitle ==
    /\ pc = "get_page_content_by_md"
    /\ IF md_content = None
       THEN /\ pc' = "except"
            /\ error' = "AttributeError"
            /\ UNCHANGED <<title, original_url>>
       ELSE /\ title' = get_page_content_by_md(md_content[1])
            /\ original_url' = IF original_url = <<>> THEN parse_filename(filename)
                               ELSE original_url
            /\ pc' = "generate_summary_tags"
            /\ UNCHANGED error
    /\ stages' = IF pc' = "generate_summary_tags" THEN Append(stages, "Extracted") ELSE stages
    /\ UNCHANGED <<client_url, bs_result, page, cause, errors, last_wait, response, file_path, retried, notion_records, config, filename, github_url, attempt, retry_delay,
                   deploy_attempt, deploy_gets, deploy_result, published,
                   md_content, url2md_result, fallback_calls, ai_calls, ai_result, summary, tags,
                   notion_calls, notion_payload, notion_url, tasks, sent, caught,
                   result>>

\* --------------------------------------------- generate_summary_tags

\* a provider call raises (API error, blocked or empty Gemini reply) or
\* returns a text
AiReplies ==
    {[ok |-> TRUE, text |-> r] : r \in AiResponses} \cup {[ok |-> FALSE, text |-> <<>>]}

\* "time.sleep(2 ** attempt)" of the inner handler
AiWait(a) == 2 ^ a

\* (a summarizer that gives up one attempt before the ceiling)
AiGivesUpEarly(a, max_retries) == a >= max_retries - 2

\* "if attempt == max_retries - 1: raise" of the inner handler
AiLastAttempt(a, max_retries) == a = max_retries - 1

\* with openai_max_retries = 0 the loop body never runs and the function
\* ends without a return statement: "summary, tags = None" raises TypeError
SummarizerNoAttempt ==
    /\ pc = "generate_summary_tags"
    /\ config.openai_max_retries = 0
    /\ pc' = "except"
    /\ error' = "TypeError"
    /\ UNCHANGED <<client_url, bs_result, page, cause, errors, last_wait, response, file_path, retried, stages, notion_records, config, filename, original_url, github_url, attempt,
                   retry_delay, deploy_attempt, deploy_gets, deploy_result,
                   published, md_content, url2md_result, fallback_calls, title, ai_calls,
                   ai_result, summary, tags, notion_calls, notion_payload,
                   notion_url, tasks, sent, caught, result>>

\* one iteration of "for attempt in range(max_retries)": the provider call,
\* the parse, and on the last failure the outer handler (lines 421-436)
SummarizerAttempt ==
    /\ pc = "generate_summary_tags"
    /\ config.openai_max_retries > 0
    /\ \E r \in AiReplies :
         LET parsed == ParseResponse(r.text)
             failed == ~r.ok \/ FormatFailure(parsed)
         IN /\ ai_calls' = ai_calls + 1
            /\ IF ~failed
               THEN /\ summary' = parsed.summary
                    /\ tags' = parsed.tags
                    /\ ai_result' = "parsed"
                    /\ pc' = "save_to_notion"
                    /\ attempt' = 0
                    /\ last_wait' = 0
                    /\ UNCHANGED <<tasks, error>>
               ELSE IF ~AiLastAttempt(attempt, config.openai_max_retries)
                    THEN /\ attempt' = attempt + 1
                         /\ last_wait' = AiWait(attempt)
                         /\ UNCHANGED <<summary, tags, ai_result, pc, tasks, error>>
                    ELSE /\ ai_result' = "exhausted"
                         /\ tasks' = AiExhaustionTasks(config, tasks)
                         /\ IF AiExhaustionRaises(config)
                            THEN /\ pc' = "except"
                                 /\ error' = "AIError"
                                 /\ UNCHANGED <<summary, tags, attempt, last_wait>>
                            ELSE /\ summary' = AiDefaults.summary
                                 /\ tags' = AiDefaults.tags
                                 /\ pc' = "save_to_notion"
                                 /\ attempt' = 0
                                 /\ last_wait' = 0
                                 /\ UNCHANGED error
    /\ stages' = IF pc' = "save_to_notion" THEN Append(stages, "Summarized") ELSE stages
    /\ retried' = (retried \/ ai_result' # "parsed")
    /\ UNCHANGED <<client_url, bs_result, page, cause, errors, response, file_path, notion_records, config, filename, original_url, github_url, retry_delay,
                   deploy_attempt, deploy_gets, deploy_result, published,
                   md_content, url2md_result, fallback_calls, title, notion_calls,
                   notion_payload, notion_url, sent, caught, result>>

\* ---------------------------------------------------- save_to_notion

\* "sleep_time = retry_delay * (2 ** attempt)"
NotionWait(a) == NotionRetryDelay * 2 ^ a

\* "if attempt < max_retries - 1: sleep, continue"
NotionRetries(a) == a < NotionMaxRetries - 1

\* the notification save_to_notion schedules once every attempt has failed
NotionExhaustionTasks(pending) == Append(pending, "notion_error")

\* the dict process_file passes to save_to_notion
ClipData ==
    [title |-> title, original_url |-> original_url, snapshot_url |-> github_url,
     summary |-> summary, tags |-> tags]

\* what a pages.create call can do: create the page and return it, fail
\* without creating it, or create it and still raise in the client (a
\* timeout or a broken connection after the request was accepted)
NotionReplies == {"created", "failed", "lost"}
Stored(reply) == reply # "failed"

\* one iteration of "for attempt in range(max_retries)": pages.create
SaveToNotion ==
    /\ pc = "save_to_notion"
    /\ \E reply \in NotionReplies : LET ok == reply = "created" IN
         /\ notion_calls' = notion_calls + 1
         /\ notion_records' = notion_records + (IF Stored(reply) THEN 1 ELSE 0)
         /\ notion_payload' = Some(NotionProperties(ClipData))
         /\ IF ok
            THEN /\ notion_url' = NotionPageUrl
                 /\ pc' = "send_telegram_notification"
                 /\ attempt' = 0
                 /\ last_wait' = 0
                 /\ errors' = <<>>
                 /\ UNCHANGED <<tasks, error, cause>>
            ELSE IF NotionRetries(attempt)
                 THEN /\ attempt' = attempt + 1
                      /\ last_wait' = NotionWait(attempt)
                      /\ errors' = Append(errors, reply)
                      /\ UNCHANGED <<notion_url, pc, tasks, error, cause>>
                 ELSE /\ tasks' = NotionExhaustionTasks(tasks)
                      /\ IF NotionExhaustionRaises(config)
                         THEN /\ pc' = "except"
                              /\ error' = "NotionError"
                              /\ errors' = Append(errors, reply)
                              /\ cause' = Propagated(errors')
                              /\ UNCHANGED <<notion_url, attempt, last_wait>>
                         ELSE /\ notion_url' = NotionPlaceholderUrl
                              /\ pc' = "send_telegram_notification"
                              /\ attempt' = 0
                              /\ last_wait' = 0
                              /\ errors' = <<>>
                              /\ UNCHANGED <<error, cause>>
    /\ stages' = IF pc' = "send_telegram_notification" THEN Append(stages, "Recorded") ELSE stages
    /\ retried' = (retried \/ notion_url' # NotionPageUrl)
    /\ UNCHANGED <<client_url, bs_result, page, response, file_path, config, filename, original_url, github_url, retry_delay,
                   deploy_attempt, deploy_gets, deploy_result, published,
                   md_content, url2md_result, fallback_calls, title, ai_calls, ai_result,
                   summary, tags, sent, caught, result>>

\* ------------------------------------- notifications and the outcome

\* one telegram_bot.send_message attempt, delivered or not
Send(log, msg, ok) == Append(log, [msg |-> msg, ok |-> ok])

\* process_file lines 179-201: await send_telegram_notification(notification),
\* then return the result; a send that raises goes to the handler
NotifyCompletion ==
    /\ pc = "send_telegram_notification"
    /\ \E ok \in BOOLEAN :
         /\ sent' = Send(sent, "completion", ok)
         /\ IF ok
            THEN /\ result' = Some([status |-> "success", github_url |-> github_url,
                                    notion_url |-> notion_url])
                 /\ pc' = "done"
                 /\ UNCHANGED error
            ELSE /\ pc' = "except"
                 /\ error' = "TelegramError"
                 /\ UNCHANGED result
    /\ stages' = IF pc' = "done" THEN Append(stages, "Notified") ELSE stages
    /\ retried' = (retried \/ pc' # "done")
    /\ UNCHANGED <<client_url, bs_result, page, cause, errors, last_wait, response, file_path, notion_records, config, filename, original_url, github_url, attempt,
                   retry_delay, deploy_attempt, deploy_gets, deploy_result,
                   published, md_content, url2md_result, fallback_calls, title, ai_calls,
                   ai_result, summary, tags, notion_calls, notion_payload,
                   notion_url, tasks, caught>>

\* (a handler that sends nothing)
HandlerSendsNothing(log, ok) == log

\* the handler's "await self.send_telegram_notification(error_msg)"
HandlerSend(log, ok) == Send(log, "failure", ok)

\* process_file lines 203-208: "except Exception as e: await
\* send_telegram_notification(error_msg); raise".  A send that raises inside
\* the handler leaves the handler with the send's exception.
ExceptHandler ==
    /\ pc = "except"
    /\ caught' = error
    /\ \E ok \in BOOLEAN :
         /\ sent' = HandlerSend(sent, ok)
         /\ error' = IF ok THEN error ELSE "TelegramError"
    /\ pc' = "raised"
    /\ attempt' = 0
    /\ UNCHANGED <<client_url, bs_result, page, cause, errors, last_wait, response, file_path, retried, stages, notion_records, config, filename, original_url, github_url, retry_delay,
                   deploy_attempt, deploy_gets, deploy_result, published,
                   md_content, url2md_result, fallback_calls, title, ai_calls, ai_result,
                   summary, tags, notion_calls, notion_payload, notion_url,
                   tasks, result>>

\* a task made by asyncio.create_task runs once process_file has suspended
\* in an await or has ended; its exception is not retrieved by anyone
RunTask ==
    /\ tasks # <<>>
    /\ pc \in {"send_telegram_notification", "except", "done", "raised"}
    /\ \E ok \in BOOLEAN : sent' = Send(sent, Head(tasks), ok)
    /\ tasks' = Tail(tasks)
    /\ UNCHANGED <<client_url, bs_result, page, cause, errors, last_wait, response, file_path, retried, stages, notion_records, config, pc, filename, original_url, github_url, attempt,
                   retry_delay, deploy_attempt, deploy_gets, deploy_result,
                   published, md_content, url2md_result, fallback_calls, title, ai_calls,
                   ai_result, summary, tags, notion_calls, notion_payload,
                   notion_url, caught, result, error>>

\* --------------------------------------- upload_file and the cleanup

\* cleanup_old_files, a task of the same event loop, runs while process_file
\* is suspended in an await and unlinks a file older than an hour
CleanupOldFiles ==
    /\ pc \in {"send_telegram_notification", "except"}
    /\ response = ""
    /\ file_path = "written"
    /\ file_path' = "cleaned"
    /\ UNCHANGED <<client_url, bs_result, page, cause, errors, last_wait, response, retried, stages, notion_records, config, pc, filename,
                   original_url, github_url, attempt, retry_delay, deploy_attempt,
                   deploy_gets, deploy_result, published, md_content, url2md_result,
                   fallback_calls, title, ai_calls, ai_result, summary, tags,
                   notion_calls, notion_payload, notion_url, tasks, sent, caught,
                   result, error>>

\* (a finally clause that unlinks without looking)
UnlinkAlways(f) == TRUE

\* "if file_path.exists(): file_path.unlink()"
UnlinkCalled(f) == f = "written"

\* upload_file lines 643-658: process_file has returned or raised; the finally
\* clause removes the file; the result is returned, or an exception (of
\* process_file or of the finally clause) becomes an HTTP 500
UploadFileReturn ==
    /\ pc \in {"done", "raised"}
    /\ response = ""
    /\ LET called == UnlinkCalled(file_path)
           FileNotFoundError == called /\ file_path # "written"
       IN /\ file_path' = IF called /\ ~FileNotFoundError THEN "unlinked" ELSE file_path
          /\ response' = IF pc = "done" /\ ~FileNotFoundError THEN "200" ELSE "500"
    /\ UNCHANGED <<client_url, bs_result, page, cause, errors, last_wait, retried, stages, notion_records, config, pc, filename,
                   original_url, github_url, attempt, retry_delay, deploy_attempt,
                   deploy_gets, deploy_result, published, md_content, url2md_result,
                   fallback_calls, title, ai_calls, ai_result, summary, tags,
                   notion_calls, notion_payload, notion_url, tasks, sent, caught,
                   result, error>>

Next ==
    \/ PublishAttempt
    \/ DeployPoll
    \/ Url2mdRequest
    \/ ExtractTitle
    \/ SummarizerNoAttempt
    \/ SummarizerAttempt
    \/ SaveToNotion
    \/ NotifyCompletion
    \/ ExceptHandler
    \/ RunTask
    \/ CleanupOldFiles
    \/ UploadFileReturn

Spec == Init /\ [][Next]_vars

\* ------------------------------------------ parse_filename on its own

\* characters of the file names explored
NameAlphabet == {"a", "_", "$", "."}

\* every name of at most MaxNameLen characters, and the two written-out names
ParseNames ==
    UNION {[1..k -> NameAlphabet] : k \in 0..MaxNameLen}
        \cup {NameExample, NameExampleHtml}

DefaultConfig ==
    [skip_ai_on_error |-> TRUE, skip_notion_on_error |-> TRUE,
     notify_on_ai_error |-> TRUE, github_pages_max_retries |-> MaxDeployRetries,
     openai_max_retries |-> MaxAiRetries]

ParseInit ==
    /\ config = DefaultConfig
    /\ pc = "parse_filename"
    /\ filename \in ParseNames
    /\ original_url = <<>>
    /\ InitLocals

\* "file_info = parse_filename(filename); original_url = file_info['original_url']"
ParseFilename ==
    /\ pc = "parse_filename"
    /\ original_url' = parse_filename(filename)
    /\ pc' = "parsed"
    /\ UNCHANGED <<client_url, bs_result, page, cause, errors, last_wait, response, file_path, retried, stages, notion_records, config, filename, github_url, attempt, retry_delay,
                   deploy_attempt, deploy_gets, deploy_result, published,
                   md_content, url2md_result, fallback_calls, title, ai_calls,
                   ai_result, summary, tags, notion_calls, notion_payload,
                   notion_url, tasks, sent, caught, result, error>>

ParseNext == ParseFilename

ParseSpec == ParseInit /\ [][ParseNext]_vars

\* ------------------------------------- save_to_notion on its own

\* the records save_to_notion is applied to: the original URL absent (None
\* and '' are both written <<>>) or given, the tag list empty, blank or not
NotionUrls == {<<>>, DeclaredUrl, parse_filename(NameShortHtml)}
NotionTagLists ==
    {<<>>, << <<>> >>, << <<" ">> >>, << <<"a">> >>, << <<"a">>, <<" ">> >>,
     << <<" ">>, <<"a">>, <<"b">> >>}
NotionTitles == {UnknownTitle, <<"t">>}

NotionInit ==
    /\ config \in {c \in Configs : /\ c.skip_ai_on_error /\ c.notify_on_ai_error
                                   /\ c.github_pages_max_retries = MaxDeployRetries
                                   /\ c.openai_max_retries = MaxAiRetries}
    /\ pc = "save_to_notion"
    /\ filename = NameShortHtml
    /\ original_url \in NotionUrls
    /\ github_url = PagesUrl(NameShortHtml)
    /\ title \in NotionTitles
    /\ summary = DefaultSummary
    /\ tags \in NotionTagLists
    /\ retried = FALSE
    /\ stages = <<>>
    /\ notion_records = 0
    /\ attempt = 0
    /\ retry_delay = GithubRetryDelay
    /\ deploy_attempt = 0
    /\ deploy_gets = 0
    /\ deploy_result = ""
    /\ published = 1
    /\ md_content = None
    /\ url2md_result = ""
    /\ fallback_calls = 0
    /\ ai_calls = 0
    /\ ai_result = ""
    /\ notion_calls = 0
    /\ notion_payload = None
    /\ notion_url = ""
    /\ tasks = <<>>
    /\ sent = <<>>
    /\ caught = NoError
    /\ result = None
    /\ error = NoError
    /\ file_path = "written"
    /\ response = ""
    /\ last_wait = 0
    /\ errors = <<>>
    /\ cause = ""
    /\ page = NoPage
    /\ bs_result = None
    /\ client_url = <<>>

NotionNext == SaveToNotion

NotionSpec == NotionInit /\ [][NotionNext]_vars

\* ------------------------------- get_page_content_by_bs on its own

\* pages the published URL may serve (h4 and h5 left out)
Pages ==
    {p \in [TitleTags -> {"absent", "empty", "text"}] :
        p["h4"] = "absent" /\ p["h5"] = "absent"}

\* what requests.get(url) can do
BsReplies ==
    {[status |-> "200", page |-> p] : p \in Pages}
        \cup {[status |-> "non200", page |-> NoPage], [status |-> "exception", page |-> NoPage]}

\* the url argument: the snapshot URL of the stored file
BsUrl == PagesUrl(filename)

\* "for attempt in range(max_retries)" goes on
BsContinues(a) == a + 1 < BsMaxRetries

BsInit ==
    /\ config = DefaultConfig
    /\ pc = "get_page_content_by_bs"
    /\ filename \in FileNames
    /\ original_url = <<>>
    /\ InitLocals

\* one iteration of get_page_content_by_bs's loop: requests.get(url); a 200
\* reply returns the formatted text, any other outcome sleeps 5 seconds;
\* when the loop ends the function returns the pair (basename, "")
BsRequest ==
    /\ pc = "get_page_content_by_bs"
    /\ fallback_calls' = 1
    /\ \E r \in BsReplies :
         IF r.status = "200"
         THEN /\ page' = r.page
              /\ bs_result' = Some([shape |-> "str", value |-> BsText(r.page)])
              /\ pc' = "bs_returned"
              /\ last_wait' = 0
              /\ UNCHANGED attempt
         ELSE /\ last_wait' = BsSleep
              /\ UNCHANGED page
              /\ IF BsContinues(attempt)
                 THEN /\ attempt' = attempt + 1
                      /\ UNCHANGED <<bs_result, pc>>
                 ELSE /\ bs_result' = Some([shape |-> "tuple",
                                            value |-> <<Basename(BsUrl), <<>> >>])
                      /\ pc' = "bs_returned"
                      /\ UNCHANGED attempt
    /\ UNCHANGED <<client_url, cause, errors, response, file_path, retried, stages, notion_records,
                   config, filename, original_url, github_url, retry_delay,
                   deploy_attempt, deploy_gets, deploy_result, published, md_content,
                   url2md_result, title, ai_calls, ai_result, summary, tags,
                   notion_calls, notion_payload, notion_url, tasks, sent, caught,
                   result, error>>

\* the returned value handed on as md_content (lines 313-314, 152) and
\* process_file line 156: get_page_content_by_md(md_content), whose
\* md_content.splitlines() a tuple does not have
BsTitleOfResult ==
    /\ pc = "bs_returned"
    /\ IF bs_result[1].shape = "str"
       THEN /\ title' = get_page_content_by_md(bs_result[1].value)
            /\ pc' = "bs_title"
            /\ UNCHANGED error
       ELSE /\ pc' = "except"
            /\ error' = "AttributeError"
            /\ UNCHANGED title
    /\ UNCHANGED <<client_url, bs_result, page, cause, errors, last_wait, response, file_path, retried,
                   stages, notion_records, config, filename, original_url, github_url,
                   attempt, retry_delay, deploy_attempt, deploy_gets, deploy_result,
                   published, md_content, url2md_result, fallback_calls, ai_calls,
                   ai_result, summary, tags, notion_calls, notion_payload, notion_url,
                   tasks, sent, caught, result>>

BsNext == BsRequest \/ BsTitleOfResult

BsSpec == BsInit /\ [][BsNext]_vars

\* ------------------------------------- process_file running to its end

\* one run per configuration, of one stored file without a declared URL
LiveInit ==
    /\ config \in Configs
    /\ pc = "upload_to_github"
    /\ filename = NameShortHtml
    /\ original_url = <<>>
    /\ InitLocals

\* the steps of the process_file coroutine itself: each external call it
\* waits for returns or fails, so a step that can be taken is taken
ProcessFileStep ==
    \/ PublishAttempt
    \/ DeployPoll
    \/ Url2mdRequest
    \/ ExtractTitle
    \/ SummarizerNoAttempt
    \/ SummarizerAttempt
    \/ SaveToNotion
    \/ NotifyCompletion
    \/ ExceptHandler

LiveSpec == LiveInit /\ [][Next]_vars /\ WF_vars(ProcessFileStep)

\* --------------------------- upload_file's stored name, then parse_filename

\* the characters of a client URL, and every URL of at most MaxUrlLen of them
UrlAlphabet == {"a", "/", "_", ".", "$"}
ClientUrls == UNION {[1..k -> UrlAlphabet] : k \in 0..MaxUrlLen}

\* the file name format parse_filename documents: the URL with every "/"
\* written "$", then ".html"
ClientFilename(url) == ReplaceChar(url, "/", "$") \o HtmlExt

\* secrets.token_hex(8): 16 hexadecimal characters
TokenHexes ==
    {<<"0","1","2","3","4","5","6","7","8","9","a","b","c","d","e","f">>,
     <<"f","f","f","f","f","f","f","f","0","0","0","0","0","0","0","0">>}

\* safe_filename = f"{secrets.token_hex(8)}_{filename}"
SafeFilename(prefix, name) == prefix \o <<"_">> \o name

RoundTripInit ==
    /\ config = DefaultConfig
    /\ pc = "upload_file"
    /\ filename = <<>>
    /\ original_url = <<>>
    /\ InitLocals

\* upload_file lines 620-641: the uploaded file, named by the client after
\* its URL, is stored under the prefixed name; no url form field is given
StoreUpload ==
    /\ pc = "upload_file"
    /\ \E url \in ClientUrls, prefix \in TokenHexes :
         /\ client_url' = url
         /\ filename' = SafeFilename(prefix, ClientFilename(url))
    /\ pc' = "parse_filename"
    /\ UNCHANGED <<bs_result, page, cause, errors, last_wait, response, file_path, retried,
                   stages, notion_records, config, original_url, github_url, attempt,
                   retry_delay, deploy_attempt, deploy_gets, deploy_result, published,
                   md_content, url2md_result, fallback_calls, title, ai_calls, ai_result,
                   summary, tags, notion_calls, notion_payload, notion_url, tasks, sent,
                   caught, result, error>>

RoundTripNext == StoreUpload \/ ParseFilename

RoundTripSpec == RoundTripInit /\ [][RoundTripNext]_vars

\* ------------------------------- get_page_content_by_md on its own

\* the characters of a markdown line, and the renderer texts the title is
\* taken from: every text of at most MaxLines lines of at most MaxLineLen
\* characters
LineAlphabet == {TitleToken, " ", "t"}
MdLines == UNION {[1..k -> LineAlphabet] : k \in 0..MaxLineLen}
MdInputs == UNION {[1..n -> MdLines] : n \in 0..MaxLines}

MdInit ==
    /\ config = DefaultConfig
    /\ pc = "get_page_content_by_md"
    /\ filename = NameShortHtml
    /\ original_url \in DeclaredUrls
    /\ github_url = PagesUrl(NameShortHtml)
    /\ title = <<>>
    /\ summary = <<>>
    /\ tags = <<>>
    /\ retried = FALSE
    /\ stages = <<"Published">>
    /\ notion_records = 0
    /\ attempt = 0
    /\ retry_delay = GithubRetryDelay
    /\ deploy_attempt = 0
    /\ deploy_gets = 0
    /\ deploy_result = ""
    /\ published = 1
    /\ md_content \in {Some(b) : b \in MdInputs}
    /\ url2md_result = "200"
    /\ fallback_calls = 0
    /\ ai_calls = 0
    /\ ai_result = ""
    /\ notion_calls = 0
    /\ notion_payload = None
    /\ notion_url = ""
    /\ tasks = <<>>
    /\ sent = <<>>
    /\ caught = NoError
    /\ result = None
    /\ error = NoError
    /\ file_path = "written"
    /\ response = ""
    /\ last_wait = 0
    /\ errors = <<>>
    /\ cause = ""
    /\ page = NoPage
    /\ bs_result = None
    /\ client_url = <<>>

MdNext == ExtractTitle

MdSpec == MdInit /\ [][MdNext]_vars

\* ================================================================ claims

\* the exception that made process_file fail: in flight before the handler
\* ran, caught by the handler afterwards
Failed == pc \in {"except", "raised"}
FailureCause == IF pc = "except" THEN error ELSE IF pc = "raised" THEN caught ELSE NoError

Attempted(msg) == \E i \in 1..Len(sent) : sent[i].msg = msg
Delivered(msg) == \E i \in 1..Len(sent) : sent[i].msg = msg /\ sent[i].ok
Undelivered(msg) == \E i \in 1..Len(sent) : sent[i].msg = msg /\ ~sent[i].ok
Count(msg) == Cardinality({i \in 1..Len(sent) : sent[i].msg = msg})

SuccessResult(note) ==
    Some([status |-> "success", github_url |-> PagesUrl(filename), notion_url |-> note])

\* C1: when publish, extraction, summary and the Notion write have succeeded
\* and the completion notification cannot be delivered, process_file still
\* returns the success result and raises nothing.
C1_NotifyFailureKeepsSuccess ==
    (notion_url = NotionPageUrl /\ Undelivered("completion"))
        => /\ pc = "done"
           /\ error = NoError
           /\ result = SuccessResult(NotionPageUrl)

\* C2: once publish has succeeded, extraction always hands a title and a
\* body string to the summarizer; url2md never returns None and process_file
\* never fails because of extraction.
C2_ExtractionNeverAborts ==
    /\ (pc = "get_page_content_by_md" => md_content # None)
    /\ FailureCause # "AttributeError"

\* C3: when all 5 publish attempts fail, process_file ends in error, no
\* provider call and no Notion write is made, and exactly one failure
\* notification send is attempted before the error reaches the caller.
PublishExhausted == published = 0 /\ pc # "upload_to_github"

C3_PublishExhaustionAborts ==
    PublishExhausted
        => /\ Failed
           /\ FailureCause = "GitHubUploadError"
           /\ error # NoError
           /\ result = None
           /\ ai_calls = 0
           /\ notion_calls = 0 /\ notion_payload = None
           /\ tasks = <<>>
           /\ IF pc = "except"
              THEN sent = <<>> /\ attempt = GithubMaxRetries - 1
              ELSE Len(sent) = 1 /\ sent[1].msg = "failure"

C3_Witness == pc = "raised" /\ caught = "GitHubUploadError" /\ Count("failure") = 1

\* C4: when the summarizer fails on every attempt and skip_ai_on_error is
\* set, generate_summary_tags returns the configured defaults, the run goes
\* on to the Notion write with them and returns success once the Notion step
\* has returned a URL and the completion notification is delivered.
AiDegraded == ai_result = "exhausted" /\ config.skip_ai_on_error

Dispatched(msg) == Attempted(msg) \/ \E i \in 1..Len(tasks) : tasks[i] = msg

C4_DefaultsCarryOn ==
    AiDegraded
        => /\ summary = DefaultSummary /\ tags = DefaultTags
           /\ FailureCause \notin {"AIError", "TypeError"}
           /\ notion_calls = 0 => pc = "save_to_notion"
           /\ notion_payload # None
                => /\ notion_payload[1].Summary = DefaultSummary
                   /\ notion_payload[1].Tags = DefaultTags
           /\ (notion_url # "" /\ Delivered("completion"))
                => pc = "done" /\ result = SuccessResult(notion_url)

NotionExhausted ==
    notion_calls = NotionMaxRetries /\ pc # "save_to_notion" /\ notion_url # NotionPageUrl

NotionDegraded == NotionExhausted /\ config.skip_notion_on_error

C5_NotionDegradesToPlaceholder ==
    NotionDegraded
        => /\ notion_url = NotionPlaceholderUrl
           /\ Dispatched("notion_error")
           /\ FailureCause # "NotionError"
           /\ ~Attempted("completion")
                => pc = "send_telegram_notification" /\ error = NoError
           /\ Delivered("completion")
                => pc = "done" /\ result = SuccessResult(NotionPlaceholderUrl)

C5_Witness ==
    /\ NotionDegraded
    /\ Attempted("notion_error")
    /\ Delivered("completion")
    /\ pc = "done"

\* C6: summarizer exhaustion aborts process_file exactly when
\* skip_ai_on_error is off (and then no Notion write is attempted); Notion
\* exhaustion aborts it exactly when skip_notion_on_error is off.
C6_AbortIffFlagDisabled ==
    /\ (ai_result = "exhausted" /\ ~config.skip_ai_on_error)
         => /\ Failed /\ FailureCause = "AIError"
            /\ result = None
            /\ notion_calls = 0 /\ notion_payload = None
    /\ (NotionExhausted /\ ~config.skip_notion_on_error)
         => /\ Failed /\ FailureCause = "NotionError"
            /\ result = None
    /\ (ai_result = "exhausted" /\ config.skip_ai_on_error)
         => FailureCause # "AIError" /\ pc # "generate_summary_tags"
    /\ (NotionExhausted /\ config.skip_notion_on_error)
         => FailureCause # "NotionError"
    /\ FailureCause = "AIError" => ai_result = "exhausted"
    /\ FailureCause = "NotionError" => NotionExhausted

C6_Witness ==
    /\ ai_result = "exhausted" /\ config.skip_ai_on_error
    /\ NotionExhausted /\ ~config.skip_notion_on_error
    /\ pc = "raised" /\ caught = "NotionError"

\* C7: what generate_summary_tags hands on to save_to_notion is a non-empty
\* summary with at least one non-blank tag, or the configured defaults; a
\* tag list of blank entries only is a format failure.
NonBlankTag(ts) == \E i \in 1..Len(ts) : Strip(ts[i]) # <<>>

C7_NoBlankTagsReachNotion ==
    /\ ai_result = "parsed" => summary # <<>> /\ NonBlankTag(tags)
    /\ AiDegraded => summary = DefaultSummary /\ tags = DefaultTags

\* C8: deploy polling that never sees 200 makes exactly
\* github_pages_max_retries GETs and then returns the published URL without
\* raising and without a second publish; a 200 ends the polling at once.
C8_PollingCeiling ==
    /\ published <= 1
    /\ pc = "deploy_poll"
         => /\ deploy_result = "" /\ published = 1
            /\ deploy_gets = deploy_attempt
            /\ deploy_gets < config.github_pages_max_retries
    /\ deploy_result = "timeout"
         => /\ deploy_gets = config.github_pages_max_retries
            /\ pc = "url2md" /\ error = NoError
            /\ published = 1 /\ github_url = PagesUrl(filename)
    /\ deploy_result = "deployed"
         => /\ deploy_gets = deploy_attempt + 1
            /\ deploy_gets <= config.github_pages_max_retries
            /\ pc = "url2md" /\ error = NoError
            /\ published = 1 /\ github_url = PagesUrl(filename)

C8_Witness ==
    /\ deploy_result = "timeout"
    /\ deploy_gets = MaxDeployRetries
    /\ pc = "url2md"

\* C9: get_page_content_by_bs is called if and only if url2md has used up
\* its attempts without a 200; never after a 200.
C9_FallbackIffExhausted ==
    /\ url2md_result = "exhausted" => fallback_calls > 0
    /\ url2md_result = "200" => fallback_calls = 0

\* C10: parse_filename strips the prefix up to the first "_" and maps "$" to
\* "/".
UrlExample ==
    <<"h","t","t","p","s",":","/","/","e","x","a","m","p","l","e",".","c","o","m",
      "/","p","a","g","e">>

UrlExampleCut == SubSeq(UrlExample, 1, 15)

Parsed == pc = "parsed"

C10_General ==
    Parsed => /\ ~Contains(original_url, "$")
              /\ (~Contains(filename, ".") /\ ~Contains(filename, "_"))
                   => original_url = ReplaceChar(filename, "$", "/")
              /\ filename = NameExampleHtml => original_url = UrlExample

\* C10 as stated: both written-out names decode to https://example.com/page.
C10_BothNamesDecode ==
    /\ C10_General
    /\ (Parsed /\ filename = NameExample) => original_url = UrlExample

\* C10 as amended: the name ending in .html decodes to the URL; the name
\* without it loses everything from its last "." and decodes to
\* https://example.
C10_ExtensionDroppedFirst ==
    /\ C10_General
    /\ (Parsed /\ filename = NameExample) => original_url = UrlExampleCut

C10_Witness == Parsed /\ filename = NameExampleHtml /\ original_url = UrlExample


\* C11: across the retries of save_to_notion at most one page for the clip
\* ends up in the database, also when a write was accepted but reported as
\* failed; a run that returns a real note URL has exactly one.
C11_OneRecordPerClip ==
    /\ notion_records <= 1
    /\ notion_url = NotionPageUrl => notion_records = 1


\* C12: the steps of one run are strictly ordered: no renderer request
\* before publish and deploy polling have returned, no provider call before
\* extraction has returned, no Notion write before the summarizer has
\* returned, no completion notification before the recorder has returned; a
\* run whose every step succeeds at once completes Published, Extracted,
\* Summarized, Recorded, Notified in that order and returns success with
\* both URLs.
AllStages == <<"Published", "Extracted", "Summarized", "Recorded", "Notified">>

RendererAsked == url2md_result # "" \/ (pc = "url2md" /\ attempt > 0)

C12_StepsInOrder ==
    /\ Len(stages) <= Len(AllStages)
    /\ stages = SubSeq(AllStages, 1, Len(stages))
    /\ pc \in {"upload_to_github", "deploy_poll"} => stages = <<>> /\ ~RendererAsked
    /\ RendererAsked => Len(stages) >= 1 /\ published = 1
    /\ pc \in {"url2md", "get_page_content_by_md"}
         => Len(stages) = 1 /\ ai_calls = 0 /\ notion_calls = 0
    /\ ai_calls > 0 => Len(stages) >= 2 /\ url2md_result = "200"
    /\ pc = "generate_summary_tags" => Len(stages) = 2 /\ notion_calls = 0
    /\ notion_calls > 0 => Len(stages) >= 3 /\ ai_result # ""
    /\ pc = "save_to_notion" => Len(stages) = 3 /\ ~Attempted("completion")
    /\ Attempted("completion") => Len(stages) >= 4 /\ notion_url # ""
    /\ pc = "done" => stages = AllStages /\ result = SuccessResult(notion_url)
    /\ ~retried => /\ ~Failed \/ FailureCause = "TypeError"
                   /\ pc = "done" => result = SuccessResult(NotionPageUrl)

C12_Witness ==
    /\ pc = "done" /\ ~retried
    /\ stages = AllStages
    /\ result = SuccessResult(NotionPageUrl)
    /\ ai_calls = 1 /\ notion_calls = 1 /\ Len(sent) = 1


\* C13: on every abort of process_file a failure notification send is
\* attempted, and the error that reaches the caller is the error of the step
\* that failed, also when the failure notification cannot be delivered.
C13_StepErrorReachesCaller ==
    pc = "raised"
        => /\ Attempted("failure")
           /\ error = caught


\* C14: save_to_notion applied to a record whose original URL is absent
\* writes a payload whose OriginalURL field is null, never an empty string;
\* a non-empty original URL is written unchanged.
C14_AbsentUrlWrittenAsNull ==
    notion_payload # None
        => LET field == notion_payload[1].OriginalURL IN
             /\ field # Some(<<>>)
             /\ original_url = <<>> => field = None
             /\ original_url # <<>> => field = Some(original_url)

C14_Witness ==
    /\ notion_calls > 0
    /\ original_url = <<>>
    /\ notion_payload # None
    /\ notion_payload[1].OriginalURL = None


\* C15: the temporary upload file no longer exists once upload_file has
\* returned or raised, whether process_file returned or raised, and also when
\* the cleanup task removed the file during the run; removing the file never
\* turns a successful run into an error.
C15_TempFileRemoved ==
    response # ""
        => /\ file_path # "written"
           /\ response = IF pc = "done" THEN "200" ELSE "500"

C15_Witness == response = "200" /\ file_path = "cleaned"


\* C16: publish is attempted at most 5 times with waits of 3, 6, 12, 24
\* seconds between consecutive attempts, the Notion write at most 3 times
\* with waits of 2 and 4 seconds; no wait follows the final failed attempt,
\* no attempt follows a successful one, and on exhaustion the error of the
\* last attempt is the one that propagates.
PublishWaits == <<3, 6, 12, 24>>
NotionWaits == <<2, 4>>

C16_ExponentialBackoff ==
    /\ pc = "upload_to_github"
         => /\ attempt <= 4 /\ Len(errors) = attempt /\ published = 0
            /\ last_wait = IF attempt = 0 THEN 0 ELSE PublishWaits[attempt]
    /\ published <= 1
    /\ FailureCause = "GitHubUploadError"
         => /\ Len(errors) = 5 /\ published = 0
            /\ last_wait = 24
            /\ cause = errors[5]
    /\ pc = "save_to_notion"
         => /\ attempt <= 2 /\ Len(errors) = attempt /\ notion_calls = attempt
            /\ notion_url = ""
            /\ last_wait = IF attempt = 0 THEN 0 ELSE NotionWaits[attempt]
    /\ notion_calls <= 3
    /\ FailureCause = "NotionError"
         => /\ Len(errors) = 3 /\ notion_calls = 3
            /\ last_wait = 4
            /\ cause = errors[3]

C16_Witness ==
    /\ pc = "except" /\ error = "GitHubUploadError"
    /\ errors = <<"ConnectionError", "ConnectionError", "ConnectionError",
                  "ConnectionError", "GithubException">>
    /\ cause = "GithubException"
    /\ last_wait = 24


\* C17: the summarizer makes at most max_retries provider calls; a failed
\* attempt (provider error, blocked reply, format failure) is followed by a
\* wait of 2^attempt seconds (1, then 2) and another attempt; a well-formed
\* reply on any attempt up to the ceiling is returned as the summary and
\* tags; defaults or failure come only after the final attempt has failed.
C17_SummarizerRetries ==
    /\ ai_calls <= config.openai_max_retries
    /\ pc = "generate_summary_tags"
         => /\ ai_calls = attempt /\ ai_result = ""
            /\ last_wait = IF attempt = 0 THEN 0 ELSE 2 ^ (attempt - 1)
    /\ ai_result = "parsed"
         => /\ ~FormatFailure([summary |-> summary, tags |-> tags])
            /\ summary # DefaultSummary
            /\ FailureCause # "AIError"
    /\ ai_result = "exhausted"
         => /\ ai_calls = config.openai_max_retries
            /\ IF config.skip_ai_on_error
               THEN summary = DefaultSummary /\ tags = DefaultTags
               ELSE FailureCause = "AIError"
    /\ FailureCause = "AIError" => ai_result = "exhausted"

C17_Witness ==
    /\ config.openai_max_retries = 3
    /\ ai_result = "parsed" /\ ai_calls = 3
    /\ pc = "save_to_notion"
    /\ tags = << <<"a">>, <<"b">> >>


\* C18: the renderer request of url2md is attempted at most 30 times, a
\* reply that is not 200 is retried, consecutive attempts are separated by a
\* wait of 10 seconds whether the previous attempt was answered with another
\* status or threw, and the first 200 reply ends the loop with its body as
\* the content.
C18_RendererRetriedEvery10s ==
    /\ pc = "url2md"
         => /\ attempt < 30
            /\ attempt > 0 => last_wait = 10
    /\ url2md_result = "200" => md_content # None /\ md_content[1] \in MdBodies


\* C19: in the fallback HTML path the title is the text of <title> when it
\* has one, else the text of <h1>, else the text of the first of <h2>..<h6>
\* found, else the unknown-title sentinel; a page with none of these
\* elements yields the sentinel, never a null or the text of a missing value.
TextOf(t) == <<t>>

C19_FallbackTitleOrder ==
    pc = "bs_title"
        => /\ page["title"] = "text" => title = TextOf("title")
           /\ (page["title"] # "text" /\ page["h1"] = "text") => title = TextOf("h1")
           /\ (page["title"] # "text" /\ page["h1"] # "text" /\ FirstHeading(page) > 0
                 /\ page[HeadingTags[FirstHeading(page)]] = "text")
                => title = TextOf(HeadingTags[FirstHeading(page)])
           /\ page = NoPage => title = UnknownTitle
           /\ title # <<"N", "o", "n", "e">>

\* C20: the fallback HTML path makes at most 60 requests with a wait of 5
\* seconds after every failed one; when all have failed it raises nothing and
\* returns a content of the same shape as on success, with an empty body and
\* the last path segment of the URL as title.
BsExhausted ==
    pc # "get_page_content_by_bs" /\ attempt = BsMaxRetries - 1 /\ last_wait = BsSleep

C20_FallbackExhaustionShape ==
    /\ pc = "get_page_content_by_bs"
         => /\ attempt < 60
            /\ attempt > 0 => last_wait = 5
    /\ bs_result # None /\ BsExhausted
         => /\ bs_result[1].shape = "str"
            /\ error = NoError
            /\ pc = "bs_title" => title = filename


\* C21: every payload save_to_notion sends has a non-empty Tags field: an
\* empty tag list is written as the single "uncategorized" tag, and every
\* other tag list, one whose entries are all blank included, is written with
\* at least one tag.
C21_TagsFieldNeverEmpty ==
    notion_payload # None
        => /\ notion_payload[1].Tags # <<>>
           /\ tags = <<>> => notion_payload[1].Tags = <<Uncategorized>>


\* C22: get_page_content_by_md returns the first line that begins with the
\* token Title:, with that leading token removed, the surrounding blanks
\* trimmed and the rest of the line unchanged, also when the line holds the
\* token again later; without such a line it returns the unknown-title
\* sentinel.
TitleLines(lines) == {i \in 1..Len(lines) : StartsWith(lines[i], TitleToken)}

FirstTitleLine(lines) ==
    lines[CHOOSE i \in TitleLines(lines) : \A j \in TitleLines(lines) : i <= j]

C22_TitleOfFirstTitleLine ==
    (pc = "generate_summary_tags" /\ md_content # None)
        => IF TitleLines(md_content[1]) = {}
           THEN title = UnknownTitle
           ELSE title = Strip(Tail(FirstTitleLine(md_content[1])))


\* C24: for every original URL, when the client names the file by writing
\* "$" for each "/" and appending ".html", and upload_file stores it under
\* 16 hexadecimal characters and "_", parse_filename of the stored name is
\* exactly the original URL, also for URLs that contain "_", "." or "$".
StoredForClient ==
    \E prefix \in TokenHexes : filename = SafeFilename(prefix, ClientFilename(client_url))

C24_FilenameRoundTrip ==
    (pc = "parsed" /\ StoredForClient) => original_url = client_url


\* C23: every process_file run ends, with the success result or with the
\* failed outcome, and no retry loop goes beyond its ceiling: at most 5
\* publish attempts, github_pages_max_retries deploy polls, 30 renderer
\* requests, openai_max_retries provider calls and 3 Notion writes.
Ended == pc \in {"done", "raised"}

WithinCeilings ==
    /\ published <= 1
    /\ pc = "upload_to_github" => attempt < 5
    /\ deploy_gets <= config.github_pages_max_retries
    /\ pc = "deploy_poll" => deploy_attempt < config.github_pages_max_retries
    /\ pc = "url2md" => attempt < 30
    /\ fallback_calls = 0
    /\ ai_calls <= config.openai_max_retries
    /\ notion_calls <= 3
    /\ pc = "done" => result # None
    /\ pc = "raised" => result = None /\ error # NoError

C23_EveryRunEnds == []WithinCeilings /\ <>[]Ended

C23_Witness ==
    /\ pc = "done" /\ result # None
    /\ config.openai_max_retries = 3 /\ ai_calls = 3
    /\ notion_calls = 3
    /\ retried

====
